---- MODULE Spec2Model ----
(***************************************************************************)
(* A model of kapish (src/src/kapish.c): a small shell that reads lines,   *)
(* tokenizes them, carries out the built-ins setenv / unsetenv / cd / exit *)
(* itself and forks a child for everything else.                           *)
(*                                                                         *)
(* Strings are sequences of one-character strings, so that strtok and      *)
(* strncmp are computed character by character as the C library does.      *)
(* A process is a record; the live processes form a chain (a process that  *)
(* forked is blocked in waitpid until its child is gone), kept in the      *)
(* sequence procs: procs[1] is the kapish the user started and the last    *)
(* element is the only process that can run.                               *)
(***************************************************************************)
EXTENDS Integers, Sequences, FiniteSets, TLC

(***************************************************************************)
(* Bounds of the model.                                                    *)
(***************************************************************************)
\* lines the terminal delivers before end of input
MaxInput == 3
\* lines of the resource file
MaxRcLines == 2
\* processes alive at once (fork fails with EAGAIN beyond it)
MaxProcs == 3
\* characters before the newline in the short lines given to tokenize
MaxLineLen == 4
\* tokens below and above the size of the token array in the long lines
MaxOver == 2

(***************************************************************************)
(* Characters and strings.                                                 *)
(***************************************************************************)
\* the terminating '\0' of a C string, read when an index reaches the length
NUL == "NUL"
\* a NULL pointer in a token array (no token is the empty string)
NULL == <<>>

W_setenv == <<"s", "e", "t", "e", "n", "v">>
W_unsetenv == <<"u", "n", "s", "e", "t", "e", "n", "v">>
W_cd == <<"c", "d">>
W_exit == <<"e", "x", "i", "t">>

\* kapish.c:29-32
SETENV_COMMAND == W_setenv
UNSETENV_COMMAND == W_unsetenv
CD_COMMAND == W_cd
EXIT_COMMAND == W_exit

\* s[i] of a C string, 0-based
CharAt(s, i) == IF i < Len(s) THEN s[i + 1] ELSE NUL

(***************************************************************************)
(* tokenize (kapish.c:42-64): strtok(command, " \n") in a loop; each token *)
(* is copied into the next slot of the token array.                        *)
(***************************************************************************)
\* strtok with the delimiter string " ": the newline is no delimiter
IsDelimSpaceOnly(c) == c = " "

\* the delimiter string " \n" of both strtok calls
IsDelim(c) == c \in {" ", "\n"}

RECURSIVE SkipDelims(_, _)
\* strtok's first phase: the index (1-based) of the first non-delimiter at or
\* after i, Len + 1 when there is none
SkipDelims(s, i) ==
  IF i > Len(s) THEN i
  ELSE IF IsDelim(s[i]) THEN SkipDelims(s, i + 1)
  ELSE i

RECURSIVE TokenEnd(_, _)
\* strtok's second phase: the index of the first delimiter (or the end) after
\* the token that starts at i
TokenEnd(s, i) ==
  IF i > Len(s) THEN i
  ELSE IF IsDelim(s[i]) THEN i
  ELSE TokenEnd(s, i + 1)

RECURSIVE tokenizeFrom(_, _)
tokenizeFrom(s, i) ==
  LET b == SkipDelims(s, i) IN
  IF b > Len(s) THEN <<>>
  ELSE LET e == TokenEnd(s, b) IN
       <<SubSeq(s, b, e - 1)>> \o tokenizeFrom(s, e + 1)

tokenize(command) == tokenizeFrom(command, 1)

\* kapish.c:41
TOKENS_SIZE == 64

\* the token array that tokenize returns: the malloc'ed block has TOKENS_SIZE
\* slots, so it holds the tokens the loop stored at token_i < TOKENS_SIZE
ArrayOf(written) ==
  SubSeq(written, 1, IF Len(written) < TOKENS_SIZE THEN Len(written)
                     ELSE TOKENS_SIZE)

\* the values of token_i at which tokens[token_i] = malloc(...) stores past
\* the end of the block: the loop has no test of token_i
Overflow(written) == {i \in 0..(Len(written) - 1) : i >= TOKENS_SIZE}

\* what tokenize returns. A store past the block is undefined behaviour: the
\* heap may stay usable and the array is returned with its TOKENS_SIZE
\* tokens, or the process is stopped and nothing is returned
Returns(written) ==
  IF Overflow(written) = {}
  THEN {ArrayOf(written)}
  ELSE {ArrayOf(written), NULL}

\* tokens[i] of the zero-filled token array, 0-based
Slot(tokens, i) == IF i < Len(tokens) THEN tokens[i + 1] ELSE NULL

(***************************************************************************)
(* check_command (kapish.c:66-77).                                         *)
(***************************************************************************)
RECURSIVE strncmpFrom(_, _, _, _)
strncmpFrom(s1, s2, n, i) ==
  IF i >= n THEN 0
  ELSE IF CharAt(s1, i) # CharAt(s2, i) THEN 1
  ELSE IF CharAt(s1, i) = NUL THEN 0
  ELSE strncmpFrom(s1, s2, n, i + 1)

\* strncmp that leaves the terminating '\0' out of the comparison: a
\* built-in name matches every token it is a prefix of
strncmp_prefix(s1, s2, n) == strncmpFrom(s1, s2, n - 1, 0)

\* 0 when the first n characters agree (comparison stops at a '\0'), and a
\* non-zero value otherwise; the callers only test for 0
strncmp(s1, s2, n) == strncmpFrom(s1, s2, n, 0)

check_command(command) ==
  IF strncmp(CD_COMMAND, command, 3) = 0 THEN "CD"
  ELSE IF strncmp(EXIT_COMMAND, command, 5) = 0 THEN "EXIT"
  ELSE IF strncmp(SETENV_COMMAND, command, 7) = 0 THEN "SETENV"
  ELSE IF strncmp(UNSETENV_COMMAND, command, 9) = 0 THEN "UNSETENV"
  ELSE "EXTERNAL"

(***************************************************************************)
(* The C library and the system, as far as kapish uses them.               *)
(***************************************************************************)
\* setenv(name, value, 1): sets or overwrites; fails (EINVAL, environment
\* untouched) for a name that holds '='
setenv(env, name, value) ==
  IF \E i \in 1..Len(name) : name[i] = "="
  THEN env
  ELSE [n \in (DOMAIN env) \cup {name} |-> IF n = name THEN value ELSE env[n]]

\* unsetenv(name): removes the variable; no error when it is absent
unsetenv(env, name) == [n \in (DOMAIN env) \ {name} |-> env[n]]

\* getenv(name): the value a process sees, NULL when the variable is absent
getenv(env, name) == IF name \in DOMAIN env THEN env[name] ELSE NULL

D_root == <<"/">>
D_tmp == <<"/", "t", "m", "p">>
D_none == <<"/", "n", "o">>
\* the directories that exist
ExistingDirs == {D_root, D_tmp}

\* chdir(path): the new working directory; unchanged when the call fails
chdir(cwd, path) == IF path \in ExistingDirs THEN path ELSE cwd

P_ls == <<"l", "s">>
P_cdx == <<"c", "d", "x">>
\* the programs execvp finds on the search path
ExistingPrograms == {P_ls}

\* the status exit(n) hands to the parent: the low eight bits
ExitCode(n) == n % 256

(***************************************************************************)
(* Input: the lines of the terminal and of the resource file.              *)
(***************************************************************************)
SP == <<" ">>
NL == <<"\n">>
V_X == <<"X">>
V_0 == <<"0">>
V_1 == <<"1">>
V_extra == <<"e">>

L_blank == SP \o NL
L_exit == W_exit \o NL
L_exit_arg == W_exit \o SP \o V_1 \o NL
L_setenv == W_setenv \o SP \o V_X \o SP \o V_1 \o NL
L_setenv_0 == W_setenv \o NL
L_setenv_1 == W_setenv \o SP \o V_X \o NL
L_setenv_3 == W_setenv \o SP \o V_X \o SP \o V_1 \o SP \o V_extra \o NL
L_unsetenv == W_unsetenv \o SP \o V_X \o NL
L_unsetenv_0 == W_unsetenv \o NL
L_cd == W_cd \o SP \o D_tmp \o NL
L_cd_0 == W_cd \o NL
L_cd_none == W_cd \o SP \o D_none \o NL
L_ls == P_ls \o NL
L_cdx == P_cdx \o NL

\* what the user may type
StdinLines ==
  {L_blank, L_exit, L_exit_arg, L_setenv, L_setenv_0, L_setenv_1, L_setenv_3,
   L_unsetenv, L_unsetenv_0, L_cd, L_cd_0, L_cd_none, L_ls, L_cdx}

\* what a line of ~/.kapishrc may be
RcLines == {L_blank, L_exit, L_setenv, L_ls, L_cdx}

RECURSIVE SeqsUpTo(_, _)
\* the sequences over S of length at most n
SeqsUpTo(S, n) ==
  IF n = 0 THEN {<<>>}
  ELSE LET shorter == SeqsUpTo(S, n - 1) IN
       shorter \cup {Append(q, x) : q \in shorter, x \in S}

RcFiles == SeqsUpTo(RcLines, MaxRcLines)

\* the environment kapish is started with
InitEnvs == {[n \in {} |-> V_0], [n \in {V_X} |-> V_0]}

(***************************************************************************)
(* State.                                                                  *)
(***************************************************************************)
VARIABLES
  procs,         \* the chain of live processes, each a record (see InitProc)
  kapishrc,      \* the lines of ~/.kapishrc
  rc_exists,     \* whether fopen finds ~/.kapishrc
  nread,         \* lines the terminal has delivered so far
  eof,           \* the terminal has reported end of input
  command,       \* check_command taken alone: its argument ...
  cmd,           \* ... and its result ("none" before the call)
  tk_line,       \* tokenize taken alone: its argument ...
  tk_tokens,     \* ... the token array it returns (NULL before the call) ...
  tk_overflow    \* ... and the slots it wrote past the end of the array

\* the variables of tokenize taken alone
tkvars == <<tk_line, tk_tokens, tk_overflow>>

vars == <<procs, kapishrc, rc_exists, nread, eof, command, cmd, tkvars>>

\* the process the user starts, at the top of main
InitProc(e) ==
  [pc |-> "main",            \* where the process is
   phase |-> "startup",      \* "startup": in initalize; "loop": in loop
   tokens |-> NULL,          \* the token array get_line returned
   ret_val |-> 1,            \* run_command's ret_val
   program_status |-> 1,     \* loop's program_status
   env |-> e,                \* the environment
   cwd |-> D_root,           \* the working directory
   rcpos |-> 1,              \* next line of kapishrc in the FILE buffer
   image |-> FALSE,          \* execvp has replaced kapish by a program
   exit_code |-> 0,          \* the exit status, once pc = "exited"
   printed |-> "",           \* the last thing the process wrote
   sigint |-> "default",     \* what SIGINT does: "default" ends the
                             \* process, "handler" runs ignore()
   signaled |-> FALSE,       \* the process was ended by a signal
   expected_env |-> e]       \* history: the environment the built-in
                             \* contract of the specification gives

Top == Len(procs)

\* the one process that is not blocked
Running == procs[Top]

\* procs with the running process replaced by r
SetTop(r) == [procs EXCEPT ![Top] = r]

(***************************************************************************)
(* main and initalize (kapish.c:190-222, 259-272).                         *)
(***************************************************************************)
\* loop() is entered: program_status = 1 (kapish.c:241)
EnterLoop(r) ==
  [r EXCEPT !.pc = "loop", !.phase = "loop", !.program_status = 1,
            !.tokens = NULL]

\* initalize without the call of signal: SIGINT keeps its default disposition
InitalizeNoHandler ==
  /\ Top >= 1
  /\ Running.pc = "main"
  /\ procs' = SetTop(IF rc_exists
                     THEN [Running EXCEPT !.pc = "rc_get"]
                     ELSE EnterLoop(Running))
  /\ UNCHANGED <<kapishrc, rc_exists, nread, eof, command, cmd, tkvars>>

\* initalize up to the first get_line: the handler for SIGINT is installed and
\* the resource file is opened; a missing file makes initalize return 0
Initalize ==
  /\ Top >= 1
  /\ Running.pc = "main"
  /\ LET r == [Running EXCEPT !.sigint = "handler"] IN
     procs' = SetTop(IF rc_exists
                     THEN [r EXCEPT !.pc = "rc_get"]
                     ELSE EnterLoop(r))
  /\ UNCHANGED <<kapishrc, rc_exists, nread, eof, command, cmd, tkvars>>

\* fgets on the resource file: NULL at the end of the file
RcLine(r) == IF r.rcpos > Len(kapishrc) THEN NULL ELSE kapishrc[r.rcpos]

\* get_line (kapish.c:80-98) on a line that fgets delivered: the tokens, or
\* NULL for a line without tokens
get_line(line) ==
  LET tokens == tokenize(line) IN
  IF Slot(tokens, 0) = NULL THEN NULL ELSE tokens

\* one turn of initalize's while (1) up to run_command: get_line on the
\* resource file; NULL ends the pass (fclose, return 0) and main calls loop
RcGetLine ==
  /\ Top >= 1
  /\ Running.pc = "rc_get"
  /\ LET line == RcLine(Running)
         tokens == IF line = NULL THEN NULL ELSE get_line(line)
     IN procs' = SetTop(IF tokens = NULL
                        THEN EnterLoop(Running)
                        ELSE [Running EXCEPT !.pc = "rc_run",
                                             !.tokens = tokens,
                                             !.rcpos = @ + 1])
  /\ UNCHANGED <<kapishrc, rc_exists, nread, eof, command, cmd, tkvars>>

(***************************************************************************)
(* loop (kapish.c:233-257) and the end of main (kapish.c:267-272).         *)
(***************************************************************************)
\* the while test of loop: a positive program_status prints the prompt and
\* goes on to get_line; otherwise loop returns program_status and main
\* exits with it (exit(ret_val), or the return at the end of main for 0)
LoopTest ==
  /\ Top >= 1
  /\ Running.pc = "loop"
  /\ procs' = SetTop(IF Running.program_status > 0
                     THEN [Running EXCEPT !.pc = "read", !.printed = "? ",
                                          !.tokens = NULL]
                     ELSE [Running EXCEPT
                             !.pc = "exited", !.tokens = NULL,
                             !.exit_code = ExitCode(Running.program_status)])
  /\ UNCHANGED <<kapishrc, rc_exists, nread, eof, command, cmd, tkvars>>

\* get_line(stdin) in loop: at end of input fgets returns NULL, and get_line
\* returns NULL; otherwise the line is tokenized, and a line without tokens
\* makes get_line return NULL as well. NULL is `continue`.
LoopGetLine ==
  /\ Top >= 1
  /\ Running.pc = "read"
  /\ \/ /\ eof' = TRUE
        /\ procs' = SetTop([Running EXCEPT !.pc = "loop"])
        /\ UNCHANGED nread
     \/ /\ ~eof
        /\ nread < MaxInput
        /\ \E line \in StdinLines :
             LET tokens == get_line(line) IN
             procs' = SetTop(IF tokens = NULL
                             THEN [Running EXCEPT !.pc = "loop"]
                             ELSE [Running EXCEPT !.pc = "run",
                                                  !.tokens = tokens])
        /\ nread' = nread + 1
        /\ UNCHANGED eof
  /\ UNCHANGED <<kapishrc, rc_exists, command, cmd, tkvars>>

(***************************************************************************)
(* run_command (kapish.c:109-166).                                         *)
(***************************************************************************)
\* the environment the specification's built-in contract gives after one
\* more dispatched line: setenv with exactly two arguments sets, unsetenv
\* with exactly one removes, every other line leaves it alone
ExpectedEnv(e, tokens) ==
  IF tokens[1] = W_setenv /\ Len(tokens) = 3
    THEN [n \in (DOMAIN e) \cup {tokens[2]} |->
            IF n = tokens[2] THEN tokens[3] ELSE e[n]]
  ELSE IF tokens[1] = W_unsetenv /\ Len(tokens) = 2
    THEN [n \in (DOMAIN e) \ {tokens[2]} |-> e[n]]
  ELSE e

\* the return in which initalize hands a Fault or a Terminate of run_command
\* on to main, which exits with it
ReturnedPropagates(r, ret) ==
  IF r.phase = "startup"
  THEN IF ret <= 0
       THEN [r EXCEPT !.pc = "exited", !.ret_val = ret,
                      !.exit_code = ExitCode(ret)]
       ELSE [r EXCEPT !.pc = "rc_get", !.ret_val = ret]
  ELSE [r EXCEPT !.pc = "loop", !.ret_val = ret, !.program_status = ret]

\* run_command returned ret to its caller: initalize drops the value, loop
\* stores it in program_status; both call cleanup and go round again. The
\* variable tokens keeps pointing at the freed array until the next turn.
Returned(r, ret) ==
  IF r.phase = "startup"
  THEN [r EXCEPT !.pc = "rc_get", !.ret_val = ret]
  ELSE [r EXCEPT !.pc = "loop", !.ret_val = ret, !.program_status = ret]

\* the setenv case without the test of tokens[2]
SetenvCaseOneCheck(r) ==
  IF Slot(r.tokens, 1) = NULL
  THEN [r EXCEPT !.printed = "usage"]
  ELSE [r EXCEPT !.env = setenv(r.env, Slot(r.tokens, 1), Slot(r.tokens, 2))]

\* the cd case with a failed chdir made an error of run_command
CdCaseFatal(r) ==
  IF Slot(r.tokens, 1) = NULL
  THEN [r EXCEPT !.printed = "usage"]
  ELSE IF Slot(r.tokens, 1) \in ExistingDirs
  THEN [r EXCEPT !.cwd = Slot(r.tokens, 1)]
  ELSE [r EXCEPT !.ret_val = -1]

\* the exit case that wants exit to stand alone
ExitCaseNoArgs(r) ==
  IF Slot(r.tokens, 1) = NULL
  THEN [r EXCEPT !.ret_val = 0]
  ELSE [r EXCEPT !.printed = "usage"]

\* the unsetenv case that takes a variable that is not set for an error
UnsetenvCaseAbsentFatal(r) ==
  IF Slot(r.tokens, 1) = NULL
  THEN [r EXCEPT !.printed = "usage"]
  ELSE IF Slot(r.tokens, 1) \in DOMAIN r.env
  THEN [r EXCEPT !.env = unsetenv(r.env, Slot(r.tokens, 1))]
  ELSE [r EXCEPT !.ret_val = -1]

\* the switch cases of the built-ins: the process after the case, before the
\* return
SetenvCase(r) ==
  IF Slot(r.tokens, 1) = NULL \/ Slot(r.tokens, 2) = NULL
  THEN [r EXCEPT !.printed = "usage"]
  ELSE [r EXCEPT !.env = setenv(r.env, Slot(r.tokens, 1), Slot(r.tokens, 2))]

UnsetenvCase(r) ==
  IF Slot(r.tokens, 1) = NULL
  THEN [r EXCEPT !.printed = "usage"]
  ELSE [r EXCEPT !.env = unsetenv(r.env, Slot(r.tokens, 1))]

CdCase(r) ==
  IF Slot(r.tokens, 1) = NULL
  THEN [r EXCEPT !.printed = "usage"]
  ELSE [r EXCEPT !.cwd = chdir(r.cwd, Slot(r.tokens, 1))]

ExitCase(r) == [r EXCEPT !.ret_val = 0]

\* run_command is entered: ret_val = 1, the first token is classified
Entered(r) ==
  [r EXCEPT !.ret_val = 1, !.printed = "",
            !.expected_env = ExpectedEnv(r.expected_env, r.tokens)]

Dispatching == Top >= 1 /\ Running.pc \in {"rc_run", "run"}

\* run_command on a built-in, from the call to the return
RunBuiltin ==
  /\ Dispatching
  /\ LET kind == check_command(Slot(Running.tokens, 0))
         r == Entered(Running)
     IN /\ kind # "EXTERNAL"
        /\ LET after == CASE kind = "SETENV" -> SetenvCase(r)
                          [] kind = "UNSETENV" -> UnsetenvCase(r)
                          [] kind = "CD" -> CdCase(r)
                          [] kind = "EXIT" -> ExitCase(r)
           IN procs' = SetTop(Returned(after, after.ret_val))
  /\ UNCHANGED <<kapishrc, rc_exists, nread, eof, command, cmd, tkvars>>

\* cid < 0 reported, ret_val left as it was
ForkFailCaseNoFault(r) == [r EXCEPT !.printed = "Error forking."]

\* cid < 0 (kapish.c:155-159)
ForkFailCase(r) == [r EXCEPT !.printed = "Error forking.", !.ret_val = -1]

\* cid = 0 and execvp returned (kapish.c:152-153)
ExecFailCase(r) ==
  [r EXCEPT !.printed = "Error creating new process.", !.ret_val = -1]

\* waitpid(pid, NULL, 0) in a process without children: fails at once
\* (ECHILD); with a child it blocks until the child has ended
WaitBlocks(i) == i < Top

\* run_command on an external command, fork succeeds: the child is a copy of
\* the parent that sees cid = 0; the parent goes to waitpid(cid) and blocks
RunExternalFork ==
  /\ Dispatching
  /\ check_command(Slot(Running.tokens, 0)) = "EXTERNAL"
  /\ Top < MaxProcs
  /\ LET r == Entered(Running) IN
     procs' = Append(SetTop([r EXCEPT !.pc = "waitpid"]),
                     [r EXCEPT !.pc = "forked"])
  /\ UNCHANGED <<kapishrc, rc_exists, nread, eof, command, cmd, tkvars>>

\* run_command on an external command, fork fails: cid < 0, "Error forking.",
\* ret_val = -1, and waitpid(-1, NULL, 0) before the return
RunExternalForkFail ==
  /\ Dispatching
  /\ check_command(Slot(Running.tokens, 0)) = "EXTERNAL"
  /\ LET r == ForkFailCase(Entered(Running))
     IN procs' = SetTop(IF WaitBlocks(Top)
                        THEN [r EXCEPT !.pc = "waitpid"]
                        ELSE Returned(r, r.ret_val))
  /\ UNCHANGED <<kapishrc, rc_exists, nread, eof, command, cmd, tkvars>>

\* the child, cid = 0: execvp finds the program and the process becomes it;
\* the program keeps the environment and the working directory
ChildExecOk ==
  /\ Top >= 1
  /\ Running.pc = "forked"
  /\ Slot(Running.tokens, 0) \in ExistingPrograms
  /\ procs' = SetTop([Running EXCEPT !.pc = "image", !.image = TRUE,
                                      !.sigint = "default"])
  /\ UNCHANGED <<kapishrc, rc_exists, nread, eof, command, cmd, tkvars>>

\* the child, cid = 0: execvp fails and returns; "Error creating new
\* process.", ret_val = -1, waitpid(0, NULL, 0) fails at once in a process
\* without children, and run_command returns -1 in the child
ChildExecFail ==
  /\ Top >= 1
  /\ Running.pc = "forked"
  /\ Slot(Running.tokens, 0) \notin ExistingPrograms
  /\ LET r == ExecFailCase(Running)
     IN procs' = SetTop(IF WaitBlocks(Top)
                        THEN [r EXCEPT !.pc = "waitpid"]
                        ELSE Returned(r, r.ret_val))
  /\ UNCHANGED <<kapishrc, rc_exists, nread, eof, command, cmd, tkvars>>

\* the exit statuses of a program
ChildStatuses == {0, 1}

\* the program a child became ends
ImageExit ==
  /\ Top >= 1
  /\ Running.pc = "image"
  /\ \E status \in ChildStatuses :
       procs' = SetTop([Running EXCEPT !.pc = "exited", !.exit_code = status])
  /\ UNCHANGED <<kapishrc, rc_exists, nread, eof, command, cmd, tkvars>>

\* waitpid that does not wait for the child to end (WNOHANG)
ChildEndedOrNot(child) == TRUE

\* waitpid(cid, NULL, 0) returns once the child has ended, by exit or by a
\* signal
ChildEnded(child) == child.pc = "exited"

\* run_command that makes its result of the way the child ended
AfterWaitByStatus(parent, child) ==
  Returned(parent,
           IF child.signaled \/ child.exit_code # 0 THEN -1 ELSE parent.ret_val)

\* the parent after waitpid(cid, NULL, 0): the status pointer is NULL, the
\* way the child ended is not looked at, and run_command returns ret_val
AfterWait(parent, child) == Returned(parent, parent.ret_val)

\* waitpid(cid, NULL, 0) in the parent returns: the child has ended and is
\* reaped, its status is dropped, and run_command returns ret_val
WaitReturn ==
  /\ Top >= 2
  /\ ChildEnded(Running)
  /\ procs[Top - 1].pc = "waitpid"
  /\ procs' = Append(SubSeq(procs, 1, Top - 2),
                     AfterWait(procs[Top - 1], Running))
  /\ UNCHANGED <<kapishrc, rc_exists, nread, eof, command, cmd, tkvars>>

\* SIGINT reaches a process: with the default disposition it ends the
\* process; with the handler ignore() installed by signal() (restarting
\* semantics) the handler runs and the interrupted fgets or waitpid goes on
Interrupted(r) ==
  IF r.sigint = "default" /\ r.pc # "exited"
  THEN [r EXCEPT !.pc = "exited", !.signaled = TRUE]
  ELSE r

\* Ctrl-C: the terminal sends SIGINT to every process of the foreground
\* process group, which kapish and its children share
Sigint ==
  /\ Top >= 1
  /\ procs' = [i \in 1..Top |-> Interrupted(procs[i])]
  /\ UNCHANGED <<kapishrc, rc_exists, nread, eof, command, cmd, tkvars>>

(***************************************************************************)
(* The shell.                                                              *)
(***************************************************************************)
Init ==
  /\ \E e \in InitEnvs : procs = <<InitProc(e)>>
  /\ rc_exists \in BOOLEAN
  /\ kapishrc \in (IF rc_exists THEN RcFiles ELSE {<<>>})
  /\ nread = 0
  /\ eof = FALSE
  /\ command = NULL
  /\ cmd = "none"
  /\ tk_line = <<>>
  /\ tk_tokens = NULL
  /\ tk_overflow = {}

Next ==
  \/ Initalize
  \/ RcGetLine
  \/ LoopTest
  \/ LoopGetLine
  \/ RunBuiltin
  \/ RunExternalFork
  \/ RunExternalForkFail
  \/ ChildExecOk
  \/ ChildExecFail
  \/ ImageExit
  \/ WaitReturn
  \/ Sigint

Spec == Init /\ [][Next]_vars

\* the scheduler runs the one process that can run
FairSpec == Spec /\ WF_vars(Next)

(***************************************************************************)
(* check_command taken alone: a first token is drawn, then classified.     *)
(***************************************************************************)
BuiltinNames == {W_setenv, W_unsetenv, W_cd, W_exit}

\* the characters appended to a name or to a prefix of one
ExtraChars == {"x", "s", "d", "E"}

\* the prefixes of the built-in names, the empty one included
Prefixes == UNION {{SubSeq(w, 1, k) : k \in 0..Len(w)} : w \in BuiltinNames}

\* first tokens: the built-in names, their proper prefixes, each of them
\* followed by one more character, and names in another case
ClassifyInputs ==
  ((Prefixes \cup {Append(q, c) : q \in Prefixes, c \in ExtraChars})
     \cup {<<"C", "D">>, <<"E", "x", "i", "t">>, <<"c", "D">>, P_ls})
    \ {<<>>}

InitClassify ==
  /\ command \in ClassifyInputs
  /\ cmd = "none"
  /\ tk_line = <<>>
  /\ tk_tokens = NULL
  /\ tk_overflow = {}
  /\ procs = <<>>
  /\ kapishrc = <<>>
  /\ rc_exists = FALSE
  /\ nread = 0
  /\ eof = FALSE

Classify ==
  /\ cmd = "none"
  /\ cmd' = check_command(command)
  /\ UNCHANGED <<procs, kapishrc, rc_exists, nread, eof, command, tkvars>>

NextClassify == Classify

ClassifySpec == InitClassify /\ [][NextClassify]_vars

(***************************************************************************)
(* tokenize taken alone: get_line hands it the line fgets delivered.       *)
(***************************************************************************)
\* the characters of the lines: a letter, a tab and the space
LineChars == {"a", "\t", " "}

\* the strings over LineChars of length n
RECURSIVE CharSeqs(_)
CharSeqs(n) ==
  IF n = 0 THEN {<<>>}
  ELSE {Append(q, c) : q \in CharSeqs(n - 1), c \in LineChars}

\* n tokens "a", each followed by a space
RECURSIVE Repeated(_)
Repeated(n) == IF n = 0 THEN <<>> ELSE <<"a", " ">> \o Repeated(n - 1)

\* the line of the tokenizer's contract
L_setenv_FOO_bar ==
  W_setenv \o SP \o <<"F", "O", "O">> \o SP \o <<"b", "a", "r">> \o NL

\* what fgets delivers: a line holds a newline at its end only, and has none
\* when the input ends without one. Short lines of every form, and lines
\* with about TOKENS_SIZE tokens (well under LINE_BUFFER_SIZE - 1 characters)
TokenizeLines ==
  LET bodies == UNION {CharSeqs(n) : n \in 0..MaxLineLen}
                  \cup {Repeated(n) : n \in (TOKENS_SIZE - MaxOver)..
                                               (TOKENS_SIZE + MaxOver)}
  IN (bodies \cup {b \o NL : b \in bodies} \cup {L_setenv_FOO_bar}) \ {<<>>}

InitTokenize ==
  /\ tk_line = <<>>
  /\ tk_tokens = NULL
  /\ tk_overflow = {}
  /\ command = NULL
  /\ cmd = "none"
  /\ procs = <<>>
  /\ kapishrc = <<>>
  /\ rc_exists = FALSE
  /\ nread = 0
  /\ eof = FALSE

\* get_line, called once: fgets delivers a line and tokenize is called on it
Tokenize ==
  /\ tk_line = <<>>
  /\ \E line \in TokenizeLines :
       LET written == tokenize(line) IN
       /\ tk_line' = line
       /\ tk_tokens' \in Returns(written)
       /\ tk_overflow' = Overflow(written)
  /\ UNCHANGED <<procs, kapishrc, rc_exists, nread, eof, command, cmd>>

NextTokenize == Tokenize

TokenizeSpec == InitTokenize /\ [][NextTokenize]_vars

(***************************************************************************)
(* Properties.                                                             *)
(***************************************************************************)

\* C5: check_command returns SETENV, UNSETENV, CD or EXIT exactly when the
\* token equals "setenv", "unsetenv", "cd" or "exit" character for character,
\* and EXTERNAL for every other token (longer, shorter, other case).
C5_ExactClassification ==
  cmd # "none" =>
    /\ (cmd = "SETENV") = (command = W_setenv)
    /\ (cmd = "UNSETENV") = (command = W_unsetenv)
    /\ (cmd = "CD") = (command = W_cd)
    /\ (cmd = "EXIT") = (command = W_exit)
    /\ (cmd = "EXTERNAL") = (command \notin BuiltinNames)

\* "cdx" has been classified, as EXTERNAL
C5_Witness == command = P_cdx /\ cmd = "EXTERNAL"

\* the number of argument tokens of the line being dispatched
Argc == Len(Running.tokens) - 1

\* the line being dispatched starts with the built-in name w
DispatchingName(w) == Dispatching /\ Running.tokens[1] = w

\* the running process after the step
After == procs'[Top]

\* the step left the environment, the working directory and the set of
\* processes as they were
NothingMutated ==
  /\ Len(procs') = Top
  /\ After.env = Running.env
  /\ After.cwd = Running.cwd

\* the caller of run_command goes on to its next get_line
GoesOn ==
  /\ After.ret_val = 1
  /\ After.pc = (IF Running.phase = "loop" THEN "loop" ELSE "rc_get")
  /\ Running.phase = "loop" => After.program_status = 1

\* a process in loop reaps a child that never became a program: its execvp
\* failed
ReapsExecFailedChild ==
  /\ Top >= 2
  /\ Running.pc = "exited"
  /\ ~Running.image
  /\ procs[Top - 1].pc = "waitpid"
  /\ procs[Top - 1].phase = "loop"
  /\ Len(procs') = Top - 1

\* C1: when the program of an external command dispatched by the interactive
\* loop cannot be executed, the process that read the command gets Fault (a
\* negative program_status) from run_command and is about to leave its loop.
C1_ExecFailureIsFault ==
  [][ReapsExecFailedChild =>
       /\ procs'[Top - 1].program_status < 0
       /\ procs'[Top - 1].pc = "loop"]_vars

\* C2: once the terminal has reported end of input, the kapish the user
\* started eventually exits, with code 0.
C2_EofTerminates ==
  eof ~> (procs[1].pc = "exited" /\ procs[1].exit_code = 0)

\* the interactive loop dispatches an external command and fork fails
ForkFailsInLoop ==
  /\ Dispatching
  /\ Running.phase = "loop"
  /\ Running.tokens[1] \notin BuiltinNames
  /\ Len(procs') = Top

\* the running process is at the while test of loop with a Fault
FaultAtLoopTest ==
  /\ Top >= 1
  /\ Running.pc = "loop"
  /\ Running.program_status < 0

\* C3: when fork fails for an external command of the interactive loop,
\* run_command returns Fault (-1) without blocking in waitpid, and the next
\* step of the process is to leave the loop, reading no line, and to exit
\* with a non-zero code.
C3_ForkFailureIsFault ==
  [][/\ ForkFailsInLoop =>
          /\ After.ret_val = -1
          /\ After.pc = "loop"
          /\ After.program_status = -1
          /\ After.printed = "Error forking."
     /\ FaultAtLoopTest =>
          /\ After.pc = "exited"
          /\ After.exit_code # 0
          /\ nread' = nread]_vars

\* the kapish the user started has exited with 255 after a failed fork
C3_Witness ==
  /\ procs[1].pc = "exited"
  /\ procs[1].phase = "loop"
  /\ procs[1].printed = "Error forking."
  /\ procs[1].ret_val = -1
  /\ procs[1].exit_code = 255

\* the running process is at the while test of loop with Terminate
TerminateAtLoopTest ==
  /\ Top >= 1
  /\ Running.pc = "loop"
  /\ Running.program_status = 0

\* C4: a line of the interactive loop whose first token is "exit", with or
\* without arguments, yields Terminate (0) and mutates nothing; the next step
\* of the process is to leave the loop, reading no line, and to exit with 0.
C4_ExitTerminates ==
  [][/\ (DispatchingName(W_exit) /\ Running.phase = "loop") =>
          /\ NothingMutated
          /\ After.ret_val = 0
          /\ After.program_status = 0
          /\ After.pc = "loop"
     /\ TerminateAtLoopTest =>
          /\ Len(procs') = Top
          /\ After.pc = "exited"
          /\ After.exit_code = 0
          /\ After.env = Running.env
          /\ After.cwd = Running.cwd
          /\ nread' = nread]_vars

\* "exit 1" has been dispatched by the loop: Terminate, with input left
C4_Witness ==
  /\ procs[1].pc = "loop"
  /\ procs[1].tokens = <<W_exit, V_1>>
  /\ procs[1].program_status = 0
  /\ nread < MaxInput
  /\ ~eof

\* the number of argument tokens the built-in w requires
RequiredArgs(w) == IF w = W_setenv THEN 2 ELSE 1

\* a setenv, unsetenv or cd line is being dispatched
DispatchingMutator ==
  /\ Dispatching
  /\ Running.tokens[1] \in {W_setenv, W_unsetenv, W_cd}

\* C6: a setenv, unsetenv or cd line with any other number of argument
\* tokens than the required one, fewer or more, prints the usage message,
\* returns Continue and leaves environment and working directory unchanged.
C6_ExactArity ==
  [][(DispatchingMutator /\ Argc # RequiredArgs(Running.tokens[1])) =>
       /\ NothingMutated
       /\ After.printed = "usage"
       /\ After.ret_val = 1]_vars

\* C7: a setenv, unsetenv or cd line with fewer argument tokens than
\* required mutates nothing, spawns nothing and returns Continue, and the
\* process goes on to read its next line.
C7_TooFewArgsNoMutation ==
  [][/\ (DispatchingMutator /\ Argc < RequiredArgs(Running.tokens[1])) =>
          /\ NothingMutated
          /\ After.printed = "usage"
          /\ GoesOn
     /\ (Top >= 1 /\ Running.pc = "loop" /\ Running.program_status > 0) =>
          After.pc = "read"]_vars

\* "setenv X" has been dispatched by the loop: X is still unset
C7_Witness ==
  /\ procs[1].pc = "loop"
  /\ procs[1].tokens = <<W_setenv, V_X>>
  /\ procs[1].printed = "usage"
  /\ procs[1].program_status = 1
  /\ getenv(procs[1].env, V_X) = NULL

\* C8: the environment of a child that became a program is the result of
\* applying, in order, every valid setenv (exactly two arguments) and
\* unsetenv (exactly one argument) dispatched before its fork.
C8_ChildSeesValidBuiltins ==
  \A i \in 1..Top :
    procs[i].image => procs[i].env = procs[i].expected_env

\* a cd line whose directory does not exist is being dispatched
DispatchingFailingCd ==
  /\ DispatchingName(W_cd)
  /\ Argc = 1
  /\ Running.tokens[2] \notin ExistingDirs

\* C9: cd to a directory that does not exist returns Continue, leaves the
\* working directory and the environment unchanged, and the process goes on
\* to read its next line.
C9_FailedCdContinues ==
  [][/\ DispatchingFailingCd => (NothingMutated /\ GoesOn)
     /\ (Top >= 1 /\ Running.pc = "loop" /\ Running.program_status > 0) =>
          After.pc = "read"]_vars

\* "cd /no" has been dispatched by the loop after "cd /tmp": still in /tmp
C9_Witness ==
  /\ procs[1].pc = "loop"
  /\ procs[1].tokens = <<W_cd, D_none>>
  /\ procs[1].program_status = 1
  /\ procs[1].cwd = D_tmp

\* the line has a token
NonBlank(line) == tokenize(line) # <<>>

\* C10: run_command never gets an empty token sequence, and a blank line of
\* the resource file is skipped: when the startup pass of the kapish the user
\* started is over, the lines it dispatched are all the non-blank lines of
\* the file, in order.
C10_BlankLinesSkipped ==
  /\ \A i \in 1..Top :
       procs[i].pc \in {"rc_run", "run"} => procs[i].tokens # <<>>
  /\ (Top >= 1 /\ rc_exists /\ procs[1].phase = "loop") =>
       SubSeq(kapishrc, 1, procs[1].rcpos - 1) = SelectSeq(kapishrc, NonBlank)

\* the running process is back in initalize's loop after a run_command that
\* returned Terminate
TerminateInStartup ==
  /\ Top >= 1
  /\ Running.phase = "startup"
  /\ Running.pc = "rc_get"
  /\ Running.ret_val = 0

\* C11: after a line of the resource file has yielded Terminate, the startup
\* pass stops: the next step of the process takes it into the interactive
\* loop, with no later line of the file read or dispatched.
C11_ExitStopsStartupPass ==
  [][TerminateInStartup => (After.phase = "loop" /\ After.pc = "loop")]_vars

\* process i is a kapish (not a program a child became) that has installed
\* its handler and is still in initalize
InStartupPass(i) ==
  /\ ~procs[i].image
  /\ procs[i].sigint = "handler"
  /\ procs[i].phase = "startup"

\* C12: whatever the lines of the resource file yield, and when the file is
\* missing, a kapish never exits from its startup pass, and it leaves the
\* pass only into the interactive loop, with program_status = 1.
C12_StartupAbsorbsOutcomes ==
  /\ [](\A i \in 1..Top : InStartupPass(i) => procs[i].pc # "exited")
  /\ [][(Top >= 1 /\ InStartupPass(Top) /\ Len(procs') = Top
           /\ After.phase # "startup") =>
          /\ After.phase = "loop"
          /\ After.pc = "loop"
          /\ After.program_status = 1]_vars

\* the kapish the user started is at the top of loop after a startup pass in
\* which a fork failed (Fault)
C12_Witness ==
  /\ procs[1].phase = "loop"
  /\ procs[1].pc = "loop"
  /\ procs[1].printed = "Error forking."
  /\ procs[1].ret_val = -1
  /\ procs[1].program_status = 1
  /\ nread = 0

\* the working directory the specification's built-in contract gives after
\* one more dispatched line: cd with exactly one argument changes it when the
\* directory exists, every other line leaves it alone
ExpectedCwd(c, tokens) ==
  IF tokens[1] = W_cd /\ Len(tokens) = 2 /\ tokens[2] \in ExistingDirs
  THEN tokens[2]
  ELSE c

\* C13: a step adds a process only when it dispatches a line that is not a
\* built-in, and then exactly one; a built-in line never forks and performs
\* exactly the one mutation of a valid setenv, unsetenv or cd line (none for
\* any other built-in line); and after exit the process exits with code 0.
C13_OnlyExternalSpawns ==
  [][/\ Len(procs') > Top =>
          /\ Dispatching
          /\ Running.tokens[1] \notin BuiltinNames
          /\ Len(procs') = Top + 1
     /\ (Dispatching /\ Running.tokens[1] \in BuiltinNames) =>
          /\ Len(procs') = Top
          /\ After.env = ExpectedEnv(Running.env, Running.tokens)
          /\ After.cwd = ExpectedCwd(Running.cwd, Running.tokens)
     /\ TerminateAtLoopTest => After.exit_code = 0]_vars

\* "unsetenv <name>" with exactly one argument is being dispatched
DispatchingUnsetenv == DispatchingName(W_unsetenv) /\ Argc = 1

\* C14: unsetenv of a variable that is absent returns Continue and leaves
\* the environment (and the working directory) as they were, and after any
\* "unsetenv X" the variable is absent: a second "unsetenv X" changes nothing.
C14_UnsetenvIdempotent ==
  [][/\ (DispatchingUnsetenv /\ Running.tokens[2] \notin DOMAIN Running.env) =>
          (NothingMutated /\ GoesOn)
     /\ DispatchingUnsetenv =>
          /\ Running.tokens[2] \notin DOMAIN After.env
          /\ After.env = unsetenv(After.env, Running.tokens[2])
          /\ GoesOn]_vars

\* "unsetenv X" has been dispatched twice by the loop, X set at the start:
\* absent after both
C14_Witness ==
  /\ procs[1].pc = "loop"
  /\ procs[1].tokens = <<W_unsetenv, V_X>>
  /\ procs[1].expected_env = [n \in {} |-> V_0]
  /\ getenv(procs[1].env, V_X) = NULL
  /\ procs[1].program_status = 1
  /\ ~rc_exists
  /\ nread = 2

\* process i has forked a child that has not been reaped yet: the child is
\* the next process of the chain
HasChild(i) == i < Top

\* the child of process i has not ended yet
ChildAlive(i) == HasChild(i) /\ procs[i + 1].pc # "exited"

\* C15: an External dispatch blocks until its child has ended and has been
\* reaped: a process with a child is in waitpid (so it has that one child
\* only), it does nothing while the child is alive (no prompt, no read, no
\* dispatch: its record stays as it is), and when it leaves waitpid its
\* child has ended and is gone.
C15_DispatchBlocksUntilReaped ==
  /\ [](\A i \in 1..Len(procs) : HasChild(i) => procs[i].pc = "waitpid")
  /\ [][\A i \in 1..Len(procs) :
          /\ ChildAlive(i) => (Len(procs') > i /\ procs'[i] = procs[i])
          /\ (HasChild(i) /\ (Len(procs') <= i \/ procs'[i] # procs[i])) =>
               /\ procs[i + 1].pc = "exited"
               /\ Len(procs') = i
               /\ procs'[i].pc # "waitpid"]_vars

\* the session is blocked in waitpid in the loop while its child runs ls
C15_Witness ==
  /\ Top = 2
  /\ procs[1].pc = "waitpid"
  /\ procs[1].phase = "loop"
  /\ procs[2].pc = "image"
  /\ procs[2].tokens = <<P_ls>>

\* process i is a kapish that has begun initalize and has not ended: the
\* session, or the copy of it a fork made
InSession(i) ==
  /\ ~procs[i].image
  /\ procs[i].pc \notin {"main", "exited"}

\* the running process is a child that became a program and was ended by a
\* signal, and this step is its parent's waitpid returning
ReapsSignaledImage ==
  /\ Top >= 2
  /\ Running.pc = "exited"
  /\ Running.image
  /\ Running.signaled
  /\ Len(procs') = Top - 1

\* C16: SIGINT never ends a kapish that has begun its session, at whatever
\* point it arrives; when it ends a child that became a program, the waitpid
\* of the parent returns, run_command returns Continue (1), and in the loop
\* the next step of the parent is to print the prompt and read.
C16_SigintSparesSession ==
  [][/\ \A i \in 1..Top :
          InSession(i) =>
            (Len(procs') >= i => ~procs'[i].signaled)
     /\ ReapsSignaledImage =>
          LET parent == procs[Top - 1]
              after == procs'[Top - 1]
          IN /\ after.ret_val = 1
             /\ after.env = parent.env
             /\ after.pc = (IF parent.phase = "loop" THEN "loop" ELSE "rc_get")
             /\ parent.phase = "loop" => after.program_status = 1
     /\ (Top >= 1 /\ Running.pc = "loop" /\ Running.ret_val = 1
           /\ Running.program_status = 1) =>
          (After.pc = "read" /\ After.printed = "? ")]_vars

\* SIGINT ended the child running ls; the session that waits for it in the
\* loop is alive
C16_Witness ==
  /\ Top = 2
  /\ procs[2].image
  /\ procs[2].signaled
  /\ procs[2].pc = "exited"
  /\ procs[1].pc = "waitpid"
  /\ procs[1].phase = "loop"
  /\ ~procs[1].signaled

\* the running process is a child that became a program and has ended, by
\* exit or by a signal, and this step is its parent's waitpid returning
ReapsImage ==
  /\ Top >= 2
  /\ Running.pc = "exited"
  /\ Running.image
  /\ Len(procs') = Top - 1

\* C17: however a child that became a program ends (exit status 0, exit
\* status 1, death by signal), run_command in the parent returns Continue
\* (1), the parent's environment and working directory stay as they were,
\* the parent goes on to its next line, and no exit code is set by it.
C17_ChildEndIgnored ==
  [][ReapsImage =>
       LET parent == procs[Top - 1]
           after == procs'[Top - 1]
       IN /\ after.ret_val = 1
          /\ after.env = parent.env
          /\ after.cwd = parent.cwd
          /\ after.pc = (IF parent.phase = "loop" THEN "loop" ELSE "rc_get")
          /\ parent.phase = "loop" => after.program_status = 1
          /\ after.exit_code = parent.exit_code]_vars

\* the child running ls has ended with status 1 and the session waits for it
\* in the loop
C17_Witness ==
  /\ Top = 2
  /\ procs[2].image
  /\ procs[2].pc = "exited"
  /\ ~procs[2].signaled
  /\ procs[2].exit_code = 1
  /\ procs[1].pc = "waitpid"
  /\ procs[1].phase = "loop"

\* C18: tokenize stores token pointers into the slots 0..TOKENS_SIZE - 1 only,
\* and the array it returns holds a NULL in one of its slots, whatever the
\* number of tokens of the line.
C18_TokensStayInArray ==
  /\ tk_overflow = {}
  /\ Slot(tk_tokens, TOKENS_SIZE - 1) = NULL

\* the characters the tokenizer's contract splits on: the space and the
\* newline (the line terminator)
IsSeparator(c) == c = " " \/ c = "\n"

\* the positions of a line where a maximal run of non-separators starts
RunStarts(s) ==
  {i \in 1..Len(s) : ~IsSeparator(s[i]) /\ (i = 1 \/ IsSeparator(s[i - 1]))}

\* the last position of the maximal run that starts at i
RunEnd(s, i) ==
  CHOOSE j \in i..Len(s) :
    /\ \A k \in i..j : ~IsSeparator(s[k])
    /\ j = Len(s) \/ IsSeparator(s[j + 1])

\* the start of the k-th maximal run, in order of appearance
KthStart(s, k) ==
  CHOOSE i \in RunStarts(s) : Cardinality({j \in RunStarts(s) : j < i}) = k - 1

MaximalRuns(s) ==
  [k \in 1..Cardinality(RunStarts(s)) |->
     SubSeq(s, KthStart(s, k), RunEnd(s, KthStart(s, k)))]

\* the line has fewer tokens than the token array has slots
WithinCapacity(s) == Cardinality(RunStarts(s)) < TOKENS_SIZE

\* C19: for a line within the capacity of the token array, tokenize returns
\* the maximal runs of non-separator characters of the line in their order:
\* no token is empty, no token holds a space or a newline, and there is no
\* token if and only if the line is empty or made of separators only.
C19_TokensAreMaximalRuns ==
  WithinCapacity(tk_line) =>
    /\ tk_tokens = MaximalRuns(tk_line)
    /\ \A k \in 1..Len(tk_tokens) :
         /\ Len(tk_tokens[k]) > 0
         /\ \A i \in 1..Len(tk_tokens[k]) : ~IsSeparator(tk_tokens[k][i])
    /\ (tk_tokens = <<>>) = (\A i \in 1..Len(tk_line) : IsSeparator(tk_line[i]))

\* "setenv FOO bar\n" has been tokenized
C19_Witness ==
  /\ tk_line = L_setenv_FOO_bar
  /\ tk_tokens = <<W_setenv, <<"F", "O", "O">>, <<"b", "a", "r">>>>
  /\ tk_overflow = {}

\* process i is a forked child in which execvp has failed and returned
ExecFailed(i) ==
  /\ i >= 2
  /\ ~procs[i].image
  /\ procs[i].pc # "forked"

\* C20: a forked child in which execvp failed only terminates: it has exited,
\* or it is at the while test of loop with a Fault and about to leave; it is
\* never reading a line of the resource file or of the terminal, never
\* dispatching a command, never waiting for a child of its own, and so it is
\* the kapish the user started alone that reads and dispatches.
C20_ExecFailedChildOnlyTerminates ==
  \A i \in 1..Len(procs) :
    ExecFailed(i) =>
      \/ procs[i].pc = "exited"
      \/ procs[i].pc = "loop" /\ procs[i].program_status < 0

====
